---- MODULE Spec2Model ----
(***************************************************************************)
(* A model of bender.py: the Bender walker (class Bender) and the driver   *)
(* loop of the __main__ block.  Coordinates are Python's: 0-based, x is    *)
(* the row index and y the column index, and a negative index counts from  *)
(* the end of the list as Python's list indexing does.                     *)
(***************************************************************************)
EXTENDS Integers, Sequences, FiniteSets, TLC

VARIABLES
    rows,               \* self.rows: the board, a list of lists of cell codes
    x, y,               \* self.x, self.y
    teleport,           \* self.teleport: the teleporter dict, or None
    history,            \* self.history
    current_direction,  \* self.current_direction
    self_priorities,    \* self.priorities
    in_beer_state,      \* self.in_beer_state
    pc,                 \* the driver's position: "main", "loop", "done", "error"
    error,              \* the exception that ended the driver, "" if none
    output,             \* the lines the driver printed on stdout
    branch,             \* the branch the last go() took
    beer_steps,         \* number of go() calls begun on a beer cell
    beer_entries,       \* number of moves that ended on a beer cell
    inverter_steps,     \* number of go() calls begun on an inverter cell
    destroyed,          \* the cells check_destroy_obstacle has erased
    go_calls,           \* number of calls of go() the driver made
    go_returns          \* number of those calls that returned

vars == <<rows, x, y, teleport, history, current_direction, self_priorities,
          in_beer_state, pc, error, output, branch, beer_steps, beer_entries,
          inverter_steps, destroyed, go_calls, go_returns>>

----------------------------------------------------------------------------
(* Module-level constants of bender.py *)

\* mutant: the default order with east and west exchanged
priorities_swapped == <<"s", "w", "n", "e">>

priorities == <<"s", "e", "n", "w">>

directions == [d \in {"w", "n", "e", "s"} |->
                 CASE d = "w" -> [x |-> 0, y |-> -1]
                   [] d = "n" -> [x |-> -1, y |-> 0]
                   [] d = "e" -> [x |-> 0, y |-> 1]
                   [] d = "s" -> [x |-> 1, y |-> 0]]

BENDER_CHAR == "@"
BOOTH_CHAR == "$"
INVERTER_CHAR == "I"
BEER_CHAR == "B"
OBSTACLE_BREAKABLE == "X"
OBSTACLE_UNBREAKABLE == "#"
TELEPORT_CHAR == "T"

\* The step ceiling.  bender.py sets TIMEOUT = 8000; the model scales it down
\* so that runs which pass the ceiling stay within reach of the model checker.
TIMEOUT == 6

DIRECTION_LONG_NAMES == [d \in {"n", "s", "e", "w"} |->
                           CASE d = "n" -> "NORTH"
                             [] d = "s" -> "SOUTH"
                             [] d = "e" -> "EAST"
                             [] d = "w" -> "WEST"]

----------------------------------------------------------------------------
(* Python list indexing and str.lower() *)

\* seq[i] raises IndexError unless -len(seq) <= i < len(seq)
PyValid(seq, i) == -Len(seq) <= i /\ i < Len(seq)

PyGet(seq, i) == seq[(IF i < 0 THEN i + Len(seq) ELSE i) + 1]

PySet(seq, i, v) == [seq EXCEPT ![(IF i < 0 THEN i + Len(seq) ELSE i) + 1] = v]

\* the (row, column) that rows[i][j] names, as non-negative indices
PyCell(r, i, j) == <<IF i < 0 THEN i + Len(r) ELSE i,
                     IF j < 0 THEN j + Len(PyGet(r, i)) ELSE j>>

lower(c) == CASE c = "S" -> "s"
              [] c = "E" -> "e"
              [] c = "N" -> "n"
              [] c = "W" -> "w"
              [] c = "I" -> "i"
              [] c = "B" -> "b"
              [] c = "X" -> "x"
              [] c = "T" -> "t"
              [] OTHER -> c

reversed(seq) == [i \in 1..Len(seq) |-> seq[Len(seq) + 1 - i]]

----------------------------------------------------------------------------
(* The Bender object as a record, and its methods as operators on it.      *)
(* Field exc holds the exception a method raised ("" when it returned).    *)

Self == [rows |-> rows, x |-> x, y |-> y, teleport |-> teleport,
         history |-> history, current_direction |-> current_direction,
         priorities |-> self_priorities, in_beer_state |-> in_beer_state,
         exc |-> "", branch |-> branch]

Raise(self, e) == [self EXCEPT !.exc = e]

\* rows[i][j] can be read without IndexError
CellValid(r, i, j) == PyValid(r, i) /\ PyValid(PyGet(r, i), j)

current_cell(self) == PyGet(PyGet(self.rows, self.x), self.y)

\* mutant: in the beer state only the breakable obstacle stops the walker
obstacles_beer_breakable(self) == IF self.in_beer_state
                                    THEN {OBSTACLE_BREAKABLE}
                                    ELSE {OBSTACLE_UNBREAKABLE, OBSTACLE_BREAKABLE}

\* mutant: in the beer state nothing stops the walker
obstacles_beer_none(self) == IF self.in_beer_state
                               THEN {}
                               ELSE {OBSTACLE_UNBREAKABLE, OBSTACLE_BREAKABLE}

obstacles(self) == IF self.in_beer_state
                     THEN {OBSTACLE_UNBREAKABLE}
                     ELSE {OBSTACLE_UNBREAKABLE, OBSTACLE_BREAKABLE}

\* get_cell raises IndexError exactly when this is false
get_cell_valid(self, compass) ==
    CellValid(self.rows, self.x + directions[compass].x,
                         self.y + directions[compass].y)

get_cell(self, compass) ==
    PyGet(PyGet(self.rows, self.x + directions[compass].x),
          self.y + directions[compass].y)

\* mutant: only the unbreakable obstacle stops the walker
check_for_obstacle_wall_only(self, compass) ==
    get_cell(self, compass) = OBSTACLE_UNBREAKABLE

check_for_obstacle(self, compass) == get_cell(self, compass) \in obstacles(self)

\* mutant: the ceiling test is >= instead of >
finished_at_ceiling(self) == IF current_cell(self) = BOOTH_CHAR
                               THEN TRUE
                               ELSE Len(self.history) >= TIMEOUT

\* mutant: the ceiling test allows one move more
finished_late(self) == IF current_cell(self) = BOOTH_CHAR
                         THEN TRUE
                         ELSE Len(self.history) > TIMEOUT + 1

finished(self) == IF current_cell(self) = BOOTH_CHAR
                    THEN TRUE
                    ELSE Len(self.history) > TIMEOUT

\* mutant: the move leaves the current direction as it was
move_keep_direction(self, compass) ==
    [self EXCEPT !.x = self.x + directions[compass].x,
                 !.y = self.y + directions[compass].y,
                 !.history = Append(self.history, DIRECTION_LONG_NAMES[compass])]

move(self, compass) ==
    [self EXCEPT !.x = self.x + directions[compass].x,
                 !.y = self.y + directions[compass].y,
                 !.history = Append(self.history, DIRECTION_LONG_NAMES[compass]),
                 !.current_direction = compass]

\* mutant: the flag is set, not flipped
check_beer_set(self) ==
    IF current_cell(self) = BEER_CHAR
      THEN [self EXCEPT !.in_beer_state = TRUE]
      ELSE self

check_beer(self) ==
    IF current_cell(self) = BEER_CHAR
      THEN [self EXCEPT !.in_beer_state = ~self.in_beer_state]
      ELSE self

\* mutant: the list becomes the reverse of the default order, whatever it was
check_inverter_from_default(self) ==
    IF current_cell(self) = INVERTER_CHAR
      THEN [self EXCEPT !.priorities = reversed(priorities)]
      ELSE self

check_inverter(self) ==
    IF current_cell(self) = INVERTER_CHAR
      THEN [self EXCEPT !.priorities = reversed(self.priorities)]
      ELSE self

check_teleport(self) ==
    IF current_cell(self) = TELEPORT_CHAR
      THEN IF self.teleport.is_none
             THEN Raise(self, "TypeError")
             ELSE IF <<self.x, self.y>> \notin DOMAIN self.teleport.dict
                    THEN Raise(self, "KeyError")
                    ELSE [self EXCEPT !.x = self.teleport.dict[<<self.x, self.y>>][1],
                                      !.y = self.teleport.dict[<<self.x, self.y>>][2]]
      ELSE self

\* mutant: the obstacle is erased whatever the flag
check_destroy_obstacle_always(self) ==
    IF current_cell(self) = OBSTACLE_BREAKABLE
      THEN [self EXCEPT !.rows = PySet(self.rows, self.x,
                                       PySet(PyGet(self.rows, self.x), self.y, " "))]
      ELSE self

check_destroy_obstacle(self) ==
    IF current_cell(self) = OBSTACLE_BREAKABLE /\ self.in_beer_state
      THEN [self EXCEPT !.rows = PySet(self.rows, self.x,
                                       PySet(PyGet(self.rows, self.x), self.y, " "))]
      ELSE self

check_current_cell(self) ==
    LET s1 == check_beer(self)
        s2 == check_inverter(s1)
        s3 == check_teleport(s2)
    IN  IF s3.exc # "" THEN s3 ELSE check_destroy_obstacle(s3)

\* mutant: the cell code is looked up without lower()
on_forced_direction_exact(self) == current_cell(self) \in DOMAIN directions

on_forced_direction(self) == lower(current_cell(self)) \in DOMAIN directions

move_in_forced_direction(self) == move(self, lower(current_cell(self)))

RECURSIVE scan_priorities(_, _)
scan_priorities(self, i) ==
    IF i > Len(self.priorities)
      THEN Raise(self, "BenderTrapped")
      ELSE IF ~get_cell_valid(self, self.priorities[i])
             THEN Raise(self, "IndexError")
             ELSE IF ~check_for_obstacle(self, self.priorities[i])
                    THEN move(self, self.priorities[i])
                    ELSE scan_priorities(self, i + 1)

\* mutant: with every direction blocked the first priority is taken
move_via_priorities_default(self) ==
    IF scan_priorities(self, 1).exc = "BenderTrapped"
      THEN move(self, self.priorities[1])
      ELSE scan_priorities(self, 1)

move_via_priorities(self) == scan_priorities(self, 1)

\* mutant: the priority list decides every move that is not forced
go_by_priorities(self) ==
    LET s == check_current_cell(self)
    IN  IF s.exc # "" THEN [s EXCEPT !.branch = "teleport"]
        ELSE IF on_forced_direction(s)
          THEN [move_in_forced_direction(s) EXCEPT !.branch = "forced"]
        ELSE [move_via_priorities(s) EXCEPT !.branch = "priorities"]

go(self) ==
    LET s == check_current_cell(self)
    IN  IF s.exc # "" THEN [s EXCEPT !.branch = "teleport"]
        ELSE IF on_forced_direction(s)
          THEN [move_in_forced_direction(s) EXCEPT !.branch = "forced"]
        ELSE IF ~get_cell_valid(s, s.current_direction)
          THEN [Raise(s, "IndexError") EXCEPT !.branch = "straight"]
        ELSE IF ~check_for_obstacle(s, s.current_direction)
          THEN [move(s, s.current_direction) EXCEPT !.branch = "straight"]
        ELSE [move_via_priorities(s) EXCEPT !.branch = "priorities"]

----------------------------------------------------------------------------
(* Bender.__init__ and the scans it runs over the board *)

\* The (row, column) pairs of the board in the order the nested enumerate
\* loops visit them.
Before(p, q) == p[1] < q[1] \/ (p[1] = q[1] /\ p[2] <= q[2])

Cells(r, code) == {p \in UNION {{<<i, j>> : j \in 0..(Len(r[i + 1]) - 1)} :
                                   i \in 0..(Len(r) - 1)} :
                     r[p[1] + 1][p[2] + 1] = code}

FirstOf(S) == CHOOSE p \in S : \A q \in S : Before(p, q)

\* None when no cell holds BENDER_CHAR (the loops fall through)
get_initial_cell_found(r) == Cells(r, BENDER_CHAR) # {}

get_initial_cell(r) == FirstOf(Cells(r, BENDER_CHAR))

NoneTeleport == [is_none |-> TRUE, dict |-> [p \in {} |-> p]]

\* mutant: the second entry of the dict maps the second teleporter to itself
get_teleporters_one_way(r) ==
    LET teleport_locations == Cells(r, TELEPORT_CHAR)
    IN  IF Cardinality(teleport_locations) < 2
          THEN NoneTeleport
          ELSE LET t0 == FirstOf(teleport_locations)
                   t1 == FirstOf(teleport_locations \ {t0})
               IN  [is_none |-> FALSE,
                    dict |-> [p \in {t0, t1} |-> t1]]

get_teleporters(r) ==
    LET teleport_locations == Cells(r, TELEPORT_CHAR)
    IN  IF Cardinality(teleport_locations) < 2
          THEN NoneTeleport
          ELSE LET t0 == FirstOf(teleport_locations)
                   t1 == FirstOf(teleport_locations \ {t0})
               IN  [is_none |-> FALSE,
                    dict |-> [p \in {t0, t1} |-> IF p = t0 THEN t1 ELSE t0]]

----------------------------------------------------------------------------
(* The boards the driver is run on *)

\* Boards have two interior rows of InteriorCols cells.
InteriorCols == 3

InteriorRowSet == {1, 2}

Codes == {" ", BENDER_CHAR, BOOTH_CHAR, INVERTER_CHAR, BEER_CHAR,
          OBSTACLE_BREAKABLE, OBSTACLE_UNBREAKABLE, TELEPORT_CHAR,
          "S", "e", "N", "w"}

Interior == InteriorRowSet \X (1..InteriorCols)

Nowhere == <<0, 0>>

\* A board of two rows of InteriorCols cells, walled by '#' when bordered:
\* the start marker at start (none when start is Nowhere), code c1 at p1,
\* code c2 at p2 and the empty code elsewhere.
InnerCell(p, start, p1, c1, p2, c2) ==
    IF p = start THEN BENDER_CHAR
    ELSE IF p = p1 THEN c1
    ELSE IF p = p2 THEN c2
    ELSE " "

MakeBoard(bordered, start, p1, c1, p2, c2) ==
    IF bordered
      THEN [i \in 1..(Cardinality(InteriorRowSet) + 2) |->
             [j \in 1..(InteriorCols + 2) |->
                IF i - 1 \notin InteriorRowSet \/ j \in {1, InteriorCols + 2}
                  THEN OBSTACLE_UNBREAKABLE
                  ELSE InnerCell(<<i - 1, j - 1>>, start, p1, c1, p2, c2)]]
      ELSE [i \in 1..Cardinality(InteriorRowSet) |->
             [j \in 1..InteriorCols |->
                InnerCell(<<i, j>>, start, p1, c1, p2, c2)]]

\* The board of the docstring of Bender.__init__
ExampleBoard == << <<"#", "#", "#", "#", "#">>,
                   <<"#", "@", " ", " ", "#">>,
                   <<"#", " ", " ", " ", "#">>,
                   <<"#", " ", " ", "$", "#">>,
                   <<"#", "#", "#", "#", "#">> >>

----------------------------------------------------------------------------
(* The driver: the __main__ block *)

Init ==
    /\ \/ rows = ExampleBoard
       \/ \E bordered \in BOOLEAN, start \in Interior \cup {Nowhere},
             p1 \in Interior, p2 \in Interior, c1 \in Codes, c2 \in Codes :
            rows = MakeBoard(bordered, start, p1, c1, p2, c2)
    /\ x = 0
    /\ y = 0
    /\ teleport = NoneTeleport
    /\ history = <<>>
    /\ current_direction = "s"
    /\ self_priorities = priorities
    /\ in_beer_state = FALSE
    /\ pc = "main"
    /\ error = ""
    /\ output = <<>>
    /\ branch = "none"
    /\ beer_steps = 0
    /\ beer_entries = 0
    /\ inverter_steps = 0
    /\ destroyed = {}
    /\ go_calls = 0
    /\ go_returns = 0

\* mutant: a board without start marker puts the walker at (0, 0)
BenderInit_default ==
    /\ pc = "main"
    /\ IF get_initial_cell_found(rows)
         THEN /\ x' = get_initial_cell(rows)[1]
              /\ y' = get_initial_cell(rows)[2]
         ELSE /\ x' = 0
              /\ y' = 0
    /\ teleport' = get_teleporters(rows)
    /\ pc' = "loop"
    /\ error' = ""
    /\ history' = <<>>
    /\ current_direction' = "s"
    /\ self_priorities' = priorities
    /\ in_beer_state' = FALSE
    /\ UNCHANGED <<rows, output, branch, beer_steps, beer_entries, inverter_steps,
                   destroyed, go_calls, go_returns>>

\* bender = Bender(rows)
BenderInit ==
    /\ pc = "main"
    /\ IF get_initial_cell_found(rows)
         THEN /\ x' = get_initial_cell(rows)[1]
              /\ y' = get_initial_cell(rows)[2]
              /\ teleport' = get_teleporters(rows)
              /\ pc' = "loop"
              /\ error' = ""
         ELSE /\ pc' = "error"
              /\ error' = "TypeError"
              /\ UNCHANGED <<x, y, teleport>>
    /\ history' = <<>>
    /\ current_direction' = "s"
    /\ self_priorities' = priorities
    /\ in_beer_state' = FALSE
    /\ UNCHANGED <<rows, output, branch, beer_steps, beer_entries, inverter_steps,
                   destroyed, go_calls, go_returns>>

\* while not bender.finished: the property reads current_cell, which raises
\* IndexError when the walker has left the board
FinishedRaises ==
    /\ pc = "loop"
    /\ ~CellValid(rows, x, y)
    /\ pc' = "error"
    /\ error' = "IndexError"
    /\ UNCHANGED <<rows, x, y, teleport, history, current_direction,
                   self_priorities, in_beer_state, output, branch, beer_steps,
                   beer_entries, inverter_steps, destroyed, go_calls,
                   go_returns>>

\* while not bender.finished: bender.go()
Go ==
    /\ pc = "loop"
    /\ CellValid(rows, x, y)
    /\ ~finished(Self)
    /\ LET s == go(Self)
       IN  /\ rows' = s.rows
           /\ x' = s.x
           /\ y' = s.y
           /\ history' = s.history
           /\ current_direction' = s.current_direction
           /\ self_priorities' = s.priorities
           /\ in_beer_state' = s.in_beer_state
           /\ branch' = s.branch
           /\ error' = s.exc
           /\ pc' = IF s.exc = "" THEN "loop" ELSE "error"
           /\ beer_entries' = IF /\ s.exc = ""
                                 /\ CellValid(s.rows, s.x, s.y)
                                 /\ current_cell(s) = BEER_CHAR
                               THEN beer_entries + 1 ELSE beer_entries
    /\ beer_steps' = IF current_cell(Self) = BEER_CHAR
                       THEN beer_steps + 1 ELSE beer_steps
    /\ inverter_steps' = IF current_cell(Self) = INVERTER_CHAR
                           THEN inverter_steps + 1 ELSE inverter_steps
    /\ destroyed' = IF check_current_cell(Self).rows # rows
                      THEN destroyed \cup {PyCell(rows, check_current_cell(Self).x,
                                                       check_current_cell(Self).y)}
                      ELSE destroyed
    /\ go_calls' = go_calls + 1
    /\ go_returns' = IF go(Self).exc = "" THEN go_returns + 1 ELSE go_returns
    /\ UNCHANGED <<teleport, output>>

\* the loop has ended: print LOOP or the moves
PrintResult ==
    /\ pc = "loop"
    /\ CellValid(rows, x, y)
    /\ finished(Self)
    /\ output' = IF Len(history) >= TIMEOUT THEN <<"LOOP">> ELSE history
    /\ pc' = "done"
    /\ UNCHANGED <<rows, x, y, teleport, history, current_direction,
                   self_priorities, in_beer_state, error, branch, beer_steps,
                   beer_entries, inverter_steps, destroyed, go_calls,
                   go_returns>>

Next == BenderInit \/ FinishedRaises \/ Go \/ PrintResult

Spec == Init /\ [][Next]_vars

TypeOK ==
    /\ pc \in {"main", "loop", "done", "error"}
    /\ in_beer_state \in BOOLEAN
    /\ current_direction \in DOMAIN directions
    /\ Len(history) <= TIMEOUT + 1

----------------------------------------------------------------------------
(* Vocabulary of the properties, stated on the board itself *)

Height(r) == Len(r)
Width(r) == Len(r[1])

AllCells(r) == (0..(Height(r) - 1)) \X (0..(Width(r) - 1))

CodeAt(r, p) == r[p[1] + 1][p[2] + 1]

\* every cell of the first and last row and column is '#'
Bordered(r) ==
    \A p \in AllCells(r) :
        (p[1] \in {0, Height(r) - 1} \/ p[2] \in {0, Width(r) - 1})
            => CodeAt(r, p) = "#"

ForcedLetters == {"S", "E", "N", "W", "s", "e", "n", "w"}

ForcedDirection(c) == CASE c \in {"S", "s"} -> "s"
                        [] c \in {"E", "e"} -> "e"
                        [] c \in {"N", "n"} -> "n"
                        [] c \in {"W", "w"} -> "w"

NoForcedTiles(r) == \A p \in AllCells(r) : CodeAt(r, p) \notin ForcedLetters

Neighbours(r, p) == {q \in AllCells(r) :
                       \/ (q[1] = p[1] /\ (q[2] = p[2] + 1 \/ q[2] = p[2] - 1))
                       \/ (q[2] = p[2] /\ (q[1] = p[1] + 1 \/ q[1] = p[1] - 1))}

\* the cells a walk over cells that are neither '#' nor 'X' can reach from S
RECURSIVE ReachableFrom(_, _)
ReachableFrom(r, S) ==
    LET N == S \cup {q \in AllCells(r) :
                       /\ CodeAt(r, q) \notin {"#", "X"}
                       /\ \E p \in S : q \in Neighbours(r, p)}
    IN  IF N = S THEN S ELSE ReachableFrom(r, N)

GoalReachable(r) ==
    /\ Cells(r, "@") # {}
    /\ \E g \in ReachableFrom(r, {FirstOf(Cells(r, "@"))}) : CodeAt(r, g) = "$"

\* the code of the cell rows[x][y] the walker stands on
Standing == CodeAt(rows, PyCell(rows, x, y))

OnGoal == CellValid(rows, x, y) /\ Standing = "$"

\* the premises of C1: walled board, goal reachable, no forced-direction tile
C1_Premises == Bordered(rows) /\ GoalReachable(rows) /\ NoForcedTiles(rows)

----------------------------------------------------------------------------
(* C1: on a board walled by '#', with the goal reachable from the start    *)
(* and no forced-direction tile, the driver loop ends with the walker on   *)
(* the goal cell and a move history no longer than the step ceiling.       *)
(* As stated this fails: the walker is greedy and can cycle beside a       *)
(* reachable goal.                                                         *)
C1_Original ==
    (pc = "done" /\ C1_Premises) => (OnGoal /\ Len(history) <= TIMEOUT)

(* C1 as amended: on such a board the driver loop, when it ends, ends      *)
(* either with the walker on the goal cell or with a move history of       *)
(* exactly ceiling + 1 moves, and the history is never longer than that.   *)
C1_Amended ==
    /\ C1_Premises => Len(history) <= TIMEOUT + 1
    /\ (pc = "done" /\ C1_Premises) => (OnGoal \/ Len(history) = TIMEOUT + 1)

\* a run on such a board that ended by cycling, the goal never reached
C1_Witness == pc = "done" /\ C1_Premises /\ ~OnGoal

(* C2: on the 5x5 board of the docstring, finished is false after the      *)
(* first go(), and the loop ends with history [SOUTH, SOUTH, EAST, EAST]   *)
(* and the walker on the goal cell (3, 3).                                 *)
C2_Example ==
    rows = ExampleBoard =>
        /\ (pc = "loop" /\ Len(history) = 1) => ~finished(Self)
        /\ pc = "done" =>
             /\ history = <<"SOUTH", "SOUTH", "EAST", "EAST">>
             /\ x = 3 /\ y = 3
             /\ OnGoal
        /\ pc # "error"

C2_Witness == rows = ExampleBoard /\ pc = "done" /\ Len(history) = 4

(* C4: when the loop ends without the walker on the goal, the history      *)
(* holds exactly ceiling + 1 moves and the output is the LOOP sentinel;    *)
(* the loop ends only on the goal cell or with the history longer than     *)
(* the ceiling.                                                            *)
C4_Ceiling ==
    /\ (pc = "done" /\ ~OnGoal) =>
          (Len(history) = TIMEOUT + 1 /\ output = <<"LOOP">>)
    /\ pc = "done" => (OnGoal \/ Len(history) > TIMEOUT)
    /\ (pc = "loop" /\ CellValid(rows, x, y) /\ finished(Self)) =>
          (Standing = "$" \/ Len(history) > TIMEOUT)

C4_Witness == pc = "done" /\ ~OnGoal /\ output = <<"LOOP">>

(* C5: when the loop ends with the walker on the goal cell, the driver     *)
(* prints the move history, not the LOOP sentinel.                         *)
C5_GoalOutput ==
    (pc = "done" /\ OnGoal) => (output = history /\ output # <<"LOOP">>)

----------------------------------------------------------------------------
(* Vocabulary of the step properties.  A step of go() is a step taken from *)
(* the loop with the walker on a readable cell and finished false.         *)

GoEnabled == pc = "loop" /\ CellValid(rows, x, y) /\ ~finished(Self)

\* the step executed a move: the history grew
Moved == Len(history') = Len(history) + 1

LastMove(h) == h[Len(h)]

LongName(d) == CASE d = "s" -> "SOUTH"
                 [] d = "e" -> "EAST"
                 [] d = "n" -> "NORTH"
                 [] d = "w" -> "WEST"

Delta(d) == CASE d = "s" -> <<1, 0>>
              [] d = "e" -> <<0, 1>>
              [] d = "n" -> <<-1, 0>>
              [] d = "w" -> <<0, -1>>

\* the code of the cell next to (i, j) in direction d, read as Python reads it
Readable(r, i, j, d) == CellValid(r, i + Delta(d)[1], j + Delta(d)[2])

NextCode(r, i, j, d) ==
    CodeAt(r, PyCell(r, i + Delta(d)[1], j + Delta(d)[2]))

ActiveObstacles(beer) == IF beer THEN {"#"} ELSE {"#", "X"}

\* direction d is blocked for a walker at (i, j) on board r with flag beer
BlockedAt(r, i, j, beer, d) ==
    Readable(r, i, j, d) /\ NextCode(r, i, j, d) \in ActiveObstacles(beer)

FreeAt(r, i, j, beer, d) ==
    Readable(r, i, j, d) /\ NextCode(r, i, j, d) \notin ActiveObstacles(beer)

(* C3: in a step where the cell the walker moves from is no forced-        *)
(* direction tile and the current direction is blocked, the move executed  *)
(* is the first direction of the priority list, as it stands after the     *)
(* step's entry effects, whose neighbouring cell is not an active          *)
(* obstacle.  The state after the step holds the entry effects: the        *)
(* priority list, the flag, the board, and the position the move left.     *)
C3_Step ==
    LET from == <<x' - Delta(current_direction')[1],
                  y' - Delta(current_direction')[2]>>
    IN  (/\ GoEnabled /\ Moved /\ pc' = "loop"
         /\ CodeAt(rows', PyCell(rows', from[1], from[2])) \notin ForcedLetters
         /\ BlockedAt(rows', from[1], from[2], in_beer_state', current_direction))
        =>
        \E i \in 1..Len(self_priorities') :
            /\ LastMove(history') = LongName(self_priorities'[i])
            /\ current_direction' = self_priorities'[i]
            /\ FreeAt(rows', from[1], from[2], in_beer_state', self_priorities'[i])
            /\ \A j \in 1..(i - 1) :
                 BlockedAt(rows', from[1], from[2], in_beer_state',
                           self_priorities'[j])

C3_PriorityOrder == [][C3_Step]_vars

\* a priority move was made where a later direction of the list was free too
C3_Witness ==
    /\ pc = "loop" /\ branch = "priorities" /\ error = ""
    /\ LET from == <<x - Delta(current_direction)[1],
                     y - Delta(current_direction)[2]>>
       IN  Cardinality({d \in {"s", "e", "n", "w"} :
                          FreeAt(rows, from[1], from[2], in_beer_state, d)}) >= 2

(* C6: in a step where, after the entry effects, the cell is no forced-    *)
(* direction tile and all four directions are blocked, go() fails with     *)
(* BenderTrapped: no move is executed, the history and the current         *)
(* direction are unchanged, and finished stays false.                      *)
C6_Step ==
    LET s == check_current_cell(Self)
    IN  (/\ GoEnabled
         /\ s.exc = ""
         /\ CodeAt(s.rows, PyCell(s.rows, s.x, s.y)) \notin ForcedLetters
         /\ \A i \in 1..Len(s.priorities) :
              BlockedAt(s.rows, s.x, s.y, s.in_beer_state, s.priorities[i]))
        =>
        /\ pc' = "error" /\ error' = "BenderTrapped"
        /\ history' = history
        /\ current_direction' = current_direction
        /\ CellValid(rows', x', y')
        /\ CodeAt(rows', PyCell(rows', x', y')) # "$"
        /\ Len(history') <= TIMEOUT

C6_Trapped == [][C6_Step]_vars

C6_Witness == pc = "error" /\ error = "BenderTrapped"

(* C7: a step begun on a cell whose code is a direction letter, upper or   *)
(* lower case, executes the move in that direction, whatever the           *)
(* neighbouring cell holds; no obstacle test decides it.                   *)
C7_Step ==
    (GoEnabled /\ Standing \in ForcedLetters)
        =>
        /\ pc' = "loop" /\ error' = ""
        /\ history' = Append(history, LongName(ForcedDirection(Standing)))
        /\ x' = x + Delta(ForcedDirection(Standing))[1]
        /\ y' = y + Delta(ForcedDirection(Standing))[2]
        /\ current_direction' = ForcedDirection(Standing)

C7_Forced == [][C7_Step]_vars

\* a forced move has put the walker on an unbreakable obstacle
C7_Witness ==
    /\ branch = "forced" /\ pc = "loop"
    /\ CellValid(rows, x, y) /\ Standing = "#"

(* C8: the priority list is the default order [s, e, n, w] when the number *)
(* of steps begun on an inverter tile is even and its exact reverse when   *)
(* that number is odd; nothing else changes the list.                      *)
C8_Inverter ==
    self_priorities = IF inverter_steps % 2 = 0
                        THEN <<"s", "e", "n", "w">>
                        ELSE <<"w", "n", "e", "s">>

\* two steps were begun on inverter tiles, and the default order is back
C8_Witness == inverter_steps >= 2 /\ self_priorities = <<"s", "e", "n", "w">>

(* C9: the pass-through flag starts false and is flipped once for each     *)
(* entry of the walker into a beer cell and by nothing else, so when the   *)
(* run ends the flag is true exactly when the number of entries is odd.    *)
(* As stated this fails: the flip is made by the step that begins on the   *)
(* beer cell, and the entry made by the last move of a run has none.       *)
C9_Original ==
    /\ pc = "main" => ~in_beer_state
    /\ pc = "done" => (in_beer_state <=> beer_entries % 2 = 1)

(* C9 as amended: the flag starts false and is flipped once by each step   *)
(* that begins on a beer cell and by nothing else, so at every moment it   *)
(* is true exactly when the number of such steps is odd; every entry into  *)
(* a beer cell is followed by such a step except one made by the last      *)
(* move of the run.                                                        *)
C9_Amended ==
    /\ in_beer_state <=> beer_steps % 2 = 1
    /\ beer_steps <= beer_entries
    /\ beer_entries <= beer_steps + 1
    /\ (pc = "loop" /\ CellValid(rows, x, y) /\ Standing # "B")
          => beer_entries = beer_steps

\* the flag was flipped twice and is false again
C9_Witness == beer_steps >= 2 /\ ~in_beer_state /\ pc = "done"

(* C10: the only change a step makes to the board is replacing the code    *)
(* 'X' by the empty code at the walker's own position; the dimensions and  *)
(* every other cell are unchanged, no cell ever becomes 'X', and a cell    *)
(* once erased stays empty, so its destruction never fires again.          *)
C10_Step ==
    /\ Len(rows') = Len(rows)
    /\ \A i \in 1..Len(rows) : Len(rows'[i]) = Len(rows[i])
    /\ \A p \in AllCells(rows) :
         /\ CodeAt(rows', p) # CodeAt(rows, p) =>
              /\ GoEnabled
              /\ p = PyCell(rows, x, y)
              /\ CodeAt(rows, p) = "X" /\ CodeAt(rows', p) = " "
              /\ in_beer_state
              /\ p \notin destroyed /\ p \in destroyed'
         /\ CodeAt(rows, p) # "X" => CodeAt(rows', p) # "X"
    /\ \A p \in destroyed : CodeAt(rows, p) = " " /\ CodeAt(rows', p) = " "
    /\ \A p \in destroyed' \ destroyed : CodeAt(rows, p) = "X"

C10_GridFrame == [][C10_Step]_vars

\* a breakable obstacle has been erased and the walker has moved on
C10_Witness ==
    /\ destroyed # {}
    /\ \A p \in destroyed : CodeAt(rows, p) = " "
    /\ CellValid(rows, x, y) /\ PyCell(rows, x, y) \notin destroyed

----------------------------------------------------------------------------
(* Vocabulary of the teleporter and construction properties *)

TeleporterCells == Cells(rows, "T")

\* the other teleporter cell of a board that holds exactly two
Other(p) == CHOOSE q \in TeleporterCells : q # p

HasStart == Cells(rows, "@") # {}

\* Bender(rows) has returned an engine
Constructed == pc # "main" /\ HasStart

Plus(p, d) == <<p[1] + Delta(d)[1], p[2] + Delta(d)[2]>>

\* the cell the last move left: the position after the teleport resolution
MovedFrom == <<x - Delta(current_direction)[1], y - Delta(current_direction)[2]>>

(* C11: on a board with exactly two teleporter cells A and B the teleport  *)
(* index maps A to B and B to A and never changes; a step begun with the   *)
(* walker at A relocates it to B and takes its move from B, ending at B    *)
(* plus the delta of the direction moved, and likewise from B.             *)
C11_Step ==
    (Cardinality(TeleporterCells) = 2 /\ Constructed) =>
        /\ ~teleport.is_none
        /\ DOMAIN teleport.dict = TeleporterCells
        /\ \A p \in TeleporterCells : teleport.dict[p] = Other(p)
        /\ teleport' = teleport
        /\ (GoEnabled /\ <<x, y>> \in TeleporterCells) =>
             /\ pc' = "loop" =>
                  (Moved /\ <<x', y'>> = Plus(Other(<<x, y>>), current_direction'))
             /\ pc' = "error" => <<x', y'>> = Other(<<x, y>>)

C11_Teleport == [][C11_Step]_vars

\* a move was just made from a teleporter cell the walker was relocated to
C11_Witness ==
    /\ Cardinality(TeleporterCells) = 2 /\ pc = "loop"
    /\ branch \in {"straight", "priorities"}
    /\ MovedFrom \in TeleporterCells

(* C12: with fewer than two teleporter cells construction succeeds with    *)
(* the teleport index absent, and a step begun on the lone teleporter cell *)
(* completes a normal move from that cell, without relocation or failure.  *)
C12_Step ==
    Cardinality(TeleporterCells) < 2 =>
        /\ (pc = "main" /\ HasStart) => (pc' = "loop" /\ teleport'.is_none)
        /\ (GoEnabled /\ Standing = "T") =>
             /\ pc' = "loop" /\ error' = ""
             /\ Moved
             /\ <<x', y'>> = Plus(<<x, y>>, current_direction')

C12_LoneTeleporter == [][C12_Step]_vars

(* C13: on a board without start marker the construction fails with an     *)
(* error: the driver never enters its loop, go() is never called, and      *)
(* nothing is printed.                                                     *)
C13_NoStart ==
    ~HasStart =>
        /\ pc \in {"main", "error"}
        /\ pc = "error" => error # ""
        /\ go_calls = 0 /\ history = <<>> /\ output = <<>>

C13_Witness == ~HasStart /\ pc = "error" /\ error = "TypeError"

----------------------------------------------------------------------------
(* Vocabulary of the position properties *)

InBounds == 0 <= x /\ x < Height(rows) /\ 0 <= y /\ y < Width(rows)

OnBorder == x \in {0, Height(rows) - 1} \/ y \in {0, Width(rows) - 1}

(* C15: whatever the pass-through flag, the walker never moves onto an     *)
(* unbreakable obstacle: the cell at the walker's position is never '#'.   *)
(* As stated this fails: a forced-direction tile aimed at '#' moves the    *)
(* walker onto it.                                                         *)
C15_Original ==
    (Constructed /\ CellValid(rows, x, y)) => Standing # "#"

(* C15 as amended: whatever the pass-through flag, no move of a step begun *)
(* on a cell that is not a forced-direction tile puts the walker on '#';   *)
(* only a forced move can.                                                 *)
C15_Step ==
    (GoEnabled /\ Standing \notin ForcedLetters /\ Moved) =>
        /\ CellValid(rows', x', y')
        /\ CodeAt(rows', PyCell(rows', x', y')) # "#"

C15_Amended == [][C15_Step]_vars

\* in the beer state the current direction was blocked and a priority move made
C15_Witness ==
    pc = "loop" /\ in_beer_state /\ branch = "priorities" /\ Standing # "#"

(* C16: on a board walled by '#' the walker's position is in bounds after  *)
(* every step and every obstacle test reads an in-bounds cell.             *)
(* As stated this fails: a walker forced onto the last row or column       *)
(* tests the cell beyond it and go() raises IndexError.                    *)
C16_Original ==
    (Bordered(rows) /\ Constructed) => (InBounds /\ error # "IndexError")

(* C16 as amended: on a board walled by '#' the walker's position is in    *)
(* bounds after every step; only a forced move puts the walker on a border *)
(* cell, and only from a border cell does an obstacle test read outside    *)
(* the board.                                                              *)
C16_Amended ==
    (Bordered(rows) /\ Constructed) =>
        /\ InBounds
        /\ error = "IndexError" => OnBorder
        /\ (OnBorder /\ pc \in {"loop", "done"}) => branch = "forced"

\* on a walled board an obstacle test made from the border read outside it
C16_Witness ==
    Bordered(rows) /\ Constructed /\ error = "IndexError" /\ OnBorder

(* C17: the walker never begins a step on a breakable obstacle it reached  *)
(* by normal moves, so the destroy effect never fires for it.              *)
(* As stated this fails: with the flag set 'X' is no obstacle, the walker  *)
(* enters it by a normal move and the next step erases it.                 *)
C17_Original ==
    NoForcedTiles(rows) =>
        /\ (pc = "loop" /\ CellValid(rows, x, y)) => Standing # "X"
        /\ destroyed = {}

(* C17 as amended: a walker whose last move was not forced begins a step   *)
(* on a breakable obstacle only with the pass-through flag set, and then   *)
(* the destroy effect fires; with the flag unset it never does.            *)
C17_Amended ==
    /\ (pc = "loop" /\ CellValid(rows, x, y) /\ Standing = "X"
          /\ branch # "forced") => in_beer_state
    /\ (NoForcedTiles(rows) /\ pc = "loop" /\ CellValid(rows, x, y)
          /\ Len(history) <= TIMEOUT /\ Standing = "X")
          => check_current_cell(Self).rows # rows

\* the walker has entered a breakable obstacle by a normal move
C17_Witness ==
    /\ pc = "loop" /\ CellValid(rows, x, y) /\ Standing = "X"
    /\ branch \in {"straight", "priorities"} /\ in_beer_state

----------------------------------------------------------------------------
(* Vocabulary of the move properties: the entry effects of the step that   *)
(* begins in the current state, read off the walker's cell.                *)

\* the flag after check_beer
FlagAfterEntry == IF Standing = "B" THEN ~in_beer_state ELSE in_beer_state

\* check_teleport finds its cell in the teleport index
TeleportResolves ==
    Standing = "T" => (~teleport.is_none /\ <<x, y>> \in DOMAIN teleport.dict)

\* the position after check_teleport
PostTeleport == IF Standing = "T" THEN teleport.dict[<<x, y>>] ELSE <<x, y>>

(* C18: in a step where the cell is no forced-direction tile and the       *)
(* neighbour in the current direction is no active obstacle, the move      *)
(* executed is the current direction, whatever the priority list holds.    *)
C18_Step ==
    (/\ GoEnabled
     /\ Standing \notin ForcedLetters
     /\ TeleportResolves
     /\ FreeAt(rows, PostTeleport[1], PostTeleport[2], FlagAfterEntry,
               current_direction))
    =>
    /\ pc' = "loop" /\ error' = ""
    /\ history' = Append(history, LongName(current_direction))
    /\ current_direction' = current_direction
    /\ <<x', y'>> = Plus(PostTeleport, current_direction)

C18_Straight == [][C18_Step]_vars

\* the step began on an inverter tile and went straight on, although the
\* first direction of the reversed list was free as well
C18_Witness ==
    /\ pc = "loop" /\ branch = "straight"
    /\ CellValid(rows, MovedFrom[1], MovedFrom[2])
    /\ CodeAt(rows, PyCell(rows, MovedFrom[1], MovedFrom[2])) = "I"
    /\ current_direction # self_priorities[1]
    /\ FreeAt(rows, MovedFrom[1], MovedFrom[2], in_beer_state, self_priorities[1])

(* C19: a go() that returns appends exactly one direction name to the      *)
(* history and changes no earlier entry, moves the position by that        *)
(* direction's delta from the position after the teleport resolution, and  *)
(* makes it the current direction; nothing else writes the history, so its *)
(* length is the number of go() calls that returned.                       *)
C19_Step ==
    /\ (GoEnabled /\ pc' = "loop") =>
         \E d \in {"s", "e", "n", "w"} :
            /\ history' = Append(history, LongName(d))
            /\ current_direction' = d
            /\ TeleportResolves
            /\ <<x', y'>> = Plus(PostTeleport, d)
    /\ ~(GoEnabled /\ pc' = "loop") =>
         (history' = history /\ current_direction' = current_direction)
    /\ Len(history) = go_returns
    /\ Len(history') = go_returns'

C19_Move == [][C19_Step]_vars

\* a step that relocated the walker has appended its one move
C19_Witness ==
    /\ pc = "loop" /\ go_returns >= 2 /\ Len(history) = go_returns
    /\ MovedFrom \in TeleporterCells /\ ~teleport.is_none

(* C20: on a board with a start marker the driver loop stops after at most *)
(* ceiling + 1 calls of go(): each call fails or lengthens the history by  *)
(* one, and after the call numbered ceiling + 1 the loop makes no more.    *)
C20_Step ==
    /\ go_calls <= TIMEOUT + 1
    /\ go_calls' <= TIMEOUT + 1
    /\ GoEnabled =>
         /\ go_calls' = go_calls + 1
         /\ pc' = "error" \/ Len(history') = Len(history) + 1
    /\ (pc = "loop" /\ go_calls = TIMEOUT + 1) =>
         (pc' \in {"done", "error"} /\ go_calls' = go_calls)

C20_LoopEnds == [][C20_Step]_vars

\* a run that used all its ceiling + 1 calls and ended
C20_Witness == HasStart /\ pc = "done" /\ go_calls = TIMEOUT + 1

====
